---- MODULE Spec2Model ----
(***************************************************************************)
(* A model of Eureka!'s Stage 5 light-curve fitting driver                 *)
(* (eureka/S5_lightcurve_fitting/s5_fit.py): the parameter expander        *)
(* make_longparamlist and the orchestration fitJWST / fit_channel.         *)
(*                                                                         *)
(* Parameter names are modelled as records [base, suf]: the string         *)
(* param + '_' + str(c+1) of the source is the name with c+1 appended to   *)
(* suf.  Declared names have an empty suf (the naming constraint that a    *)
(* declared name does not itself end in _<digit>), which makes this        *)
(* representation one-to-one with the strings the source builds.           *)
(***************************************************************************)
EXTENDS Integers, Sequences, FiniteSets, TLC

VARIABLES
    params,         \* the Parameters object: its .dict, in insertion order
    nspecchan,      \* meta.nspecchan
    sharedp,        \* meta.sharedp
    longparamlist,  \* the last longparamlist returned
    paramtitles,    \* the last paramtitles returned
    error,          \* the exception that ended the run or the call, if any
    calls,          \* the make_longparamlist calls made so far, with their results
    fileParams,     \* the ParameterSet declared in the file meta.fit_par
    fit_method,     \* meta.fit_method, as listed in the control file
    nconfig,        \* number of (spec_hw_val, bg_hw_val) pairs of the run
    pc,             \* where fitJWST is
    run_i,          \* run_i of fitJWST
    channel,        \* the channel index handed to fit_channel
    stage,          \* the next fitter block of fit_channel (1..4), 5 past the last
    fits,           \* the calls lc_model.fit(model, meta, log, fitter=...) made
    logs,           \* the entries written with log.writelog
    saved,          \* the configurations me.saveevent was called for, in order
    closed,         \* the configurations whose log was closed
    fitter,         \* model.fitter of the current CompositeModel
    testing_S5,     \* meta.testing_S5
    chanrng,        \* chanrng of fitJWST
    spec_hw_range,  \* meta.spec_hw_range
    bg_hw_range,    \* meta.bg_hw_range
    spec_hw_val,    \* the aperture half-width of the configuration being processed
    bg_hw_val,      \* its background half-width
    bjdtdb,         \* meta.bjdtdb, the upstream time array
    lcdata,         \* meta.lcdata, one flux row per channel
    lcerr,          \* meta.lcerr, one uncertainty row per channel
    t_mjdtdb,       \* t_mjdtdb of fitJWST
    lcs,            \* the LightCurve objects fit_channel has made, in order
    outputdir,      \* meta.outputdir of the configuration being processed
    fs,             \* the output file system: run directories and their folders
    runs,           \* the makedirectory calls made so far, with what they returned
    s4files,        \* the upstream metadata save files in and under the inputdir
    s4loaded,       \* what read_s4_meta did: the glob results and the file loaded
    nandata,        \* the data array handed to check_nans
    nanmask,        \* the mask array handed to check_nans
    nanlog          \* what check_nans returned and wrote to the log

dataVars == <<testing_S5, chanrng, spec_hw_range, bg_hw_range, spec_hw_val,
              bg_hw_val, bjdtdb, lcdata, lcerr, t_mjdtdb, lcs, outputdir>>

utilVars == <<fs, runs, s4files, s4loaded, nandata, nanmask, nanlog>>

fitVars == <<params, nspecchan, sharedp, longparamlist, paramtitles, calls,
             fileParams, fit_method, nconfig, run_i, channel, stage, fits,
             logs, saved, closed, fitter>>

vars == <<params, nspecchan, sharedp, longparamlist, paramtitles, error, calls,
          fileParams, fit_method, nconfig, pc, run_i, channel, stage, fits,
          logs, saved, closed, fitter, dataVars, utilVars>>

(***************************************************************************)
(* Bounds of the model                                                     *)
(***************************************************************************)
MaxParams == 2      \* declared parameters in a ParameterSet
MaxChan == 3        \* largest channel count
MaxCalls == 2       \* consecutive calls of the expander on one ParameterSet
MaxConfigs == 2     \* (aperture, background) configurations of a run
MaxRunChan == 2     \* largest channel count of a run of fitJWST

BaseNames == {"rp", "t0", "c0"}
ParamValues == {10, 20}
Kinds == {"free", "shared", "fixed", "independent"}
ChanCounts == (0 - 1)..MaxChan

DeclName(b) == [base |-> b, suf |-> <<>>]

Range(s) == {s[i] : i \in 1..Len(s)}

NoError == [kind |-> "none", cfg |-> 0, chan |-> 0, fitter |-> "none"]

\* no output directory
NoDir == [run |-> 0, ap |-> 0, bg |-> 0]

\* no file system, metadata files or arrays are in play
NoUtil ==
    /\ fs = [runs |-> {}, dirs |-> {}, figs |-> {}]
    /\ runs = <<>>
    /\ s4files = [top |-> {}, sub |-> {}]
    /\ s4loaded = <<>>
    /\ nandata = <<>>
    /\ nanmask = <<>>
    /\ nanlog = <<>>

\* no run of fitJWST is in play
NoData ==
    /\ testing_S5 = FALSE
    /\ chanrng = <<>>
    /\ spec_hw_range = <<>>
    /\ bg_hw_range = <<>>
    /\ spec_hw_val = 0
    /\ bg_hw_val = 0
    /\ bjdtdb = <<>>
    /\ lcdata = <<>>
    /\ lcerr = <<>>
    /\ t_mjdtdb = <<>>
    /\ lcs = <<>>
    /\ outputdir = NoDir

NoFit ==
    /\ params = <<>>
    /\ nspecchan = 0
    /\ sharedp = FALSE
    /\ longparamlist = <<>>
    /\ paramtitles = <<>>
    /\ calls = <<>>
    /\ fileParams = <<>>
    /\ fit_method = <<>>
    /\ nconfig = 0
    /\ run_i = 0
    /\ channel = 0
    /\ stage = 0
    /\ fits = <<>>
    /\ logs = <<>>
    /\ saved = <<>>
    /\ closed = {}
    /\ fitter = "none"

(***************************************************************************)
(* Parameters (eureka.lib.readEPF / parameters.py)                         *)
(***************************************************************************)
\* params.dict.keys(), in insertion order
Keys(dict) == [i \in 1..Len(dict) |-> dict[i].name]

HasKey(dict, name) == \E i \in 1..Len(dict) : dict[i].name = name

\* params.dict[param]
Lookup(dict, name) == dict[CHOOSE i \in 1..Len(dict) : dict[i].name = name].vals

\* params.__setattr__(title, values): a Parameter of that name is made from a
\* copy of the values and registered under the name in params.dict (an
\* existing key keeps its place, a new key goes last).
SetAttr(dict, title, vals) ==
    IF HasKey(dict, title)
    THEN [i \in 1..Len(dict) |->
            IF dict[i].name = title THEN [name |-> title, vals |-> vals] ELSE dict[i]]
    ELSE Append(dict, [name |-> title, vals |-> vals])

\* 'free' in params.dict[param], 'shared' in params.dict[param]
IsFree(dict, name) == Lookup(dict, name).ptype = "free"
IsShared(dict, name) == Lookup(dict, name).ptype = "shared"

(***************************************************************************)
(* make_longparamlist                                                      *)
(***************************************************************************)
\* a suffix that is off by one: param+'_'+str(c)
Title_OffByOne(param, k) == [param EXCEPT !.suf = Append(@, k - 1)]

\* param+'_'+str(c+1)
Title(param, k) == [param EXCEPT !.suf = Append(@, k)]

\* the channel count taken from meta whatever the mode
EffChannels_Always(shared, n) == n

\* nspecchan of make_longparamlist
EffChannels(shared, n) == IF shared THEN n ELSE 1

\* a channel count below one clamped to one list
EmptyLists_AtLeastOne(n) == [c \in 1..(IF n < 1 THEN 1 ELSE n) |-> <<>>]

\* [ [] for i in range(nspecchan) ]
EmptyLists(n) == [c \in 1..n |-> <<>>]

\* for c in np.arange(nspecchan-1): the loop of the free branch, from c on.
\* st = [lpl, dict]; channel c of the source is position c+1 of lpl.
RECURSIVE FreeLoop(_, _, _, _)
FreeLoop(st, param, c, n) ==
    IF c >= n - 1 THEN st
    ELSE LET title == Title(param, c + 1)
             d2 == SetAttr(st.dict, title, Lookup(st.dict, param))
             l2 == [st.lpl EXCEPT ![c + 2] = Append(@, title)]
         IN  FreeLoop([st EXCEPT !.dict = d2, !.lpl = l2], param, c + 1, n)

\* the name appended to channel 0's list only
AppendAll_FirstOnly(lpl, param) ==
    [c \in 1..Len(lpl) |-> IF c = 1 THEN Append(lpl[c], param) ELSE lpl[c]]

\* for c in np.arange(nspecchan): longparamlist[c].append(param)
AppendAll(lpl, param) == [c \in 1..Len(lpl) |-> Append(lpl[c], param)]

\* a free branch that makes no per-channel copies
ExpandOne_NoCopies(st, param, n) ==
    IF st.err # "none" THEN st
    ELSE IF IsFree(st.dict, param)
    THEN IF Len(st.lpl) = 0
         THEN [st EXCEPT !.err = "IndexError"]
         ELSE [st EXCEPT !.lpl[1] = Append(@, param)]
    ELSE [st EXCEPT !.lpl = AppendAll(@, param)]

\* the body of "for param in tlist" for one param
ExpandOne(st, param, n) ==
    IF st.err # "none" THEN st
    ELSE IF IsFree(st.dict, param)
    THEN IF Len(st.lpl) = 0
         THEN [st EXCEPT !.err = "IndexError"]
         ELSE FreeLoop([st EXCEPT !.lpl[1] = Append(@, param)], param, 0, n)
    ELSE IF IsShared(st.dict, param)
    THEN [st EXCEPT !.lpl = AppendAll(@, param)]
    ELSE [st EXCEPT !.lpl = AppendAll(@, param)]

\* for param in tlist, from position i on
RECURSIVE ExpandFrom(_, _, _, _)
ExpandFrom(st, tlist, i, n) ==
    IF i > Len(tlist) THEN st
    ELSE ExpandFrom(ExpandOne(st, tlist[i], n), tlist, i + 1, n)

\* make_longparamlist(meta, params): the lists, the titles, params.dict as the
\* call leaves it, and the exception raised ("none" when it returns)
make_longparamlist(shared, nchan, dict) ==
    LET n == EffChannels(shared, nchan)
        st0 == [lpl |-> EmptyLists(n), dict |-> dict, err |-> "none"]
        st == ExpandFrom(st0, Keys(dict), 1, n)
    IN  IF st.err # "none"
        THEN [lpl |-> <<>>, titles |-> <<>>, dict |-> st.dict, err |-> st.err]
        ELSE IF Len(st.lpl) = 0
        THEN [lpl |-> <<>>, titles |-> <<>>, dict |-> st.dict, err |-> "IndexError"]
        ELSE [lpl |-> st.lpl, titles |-> st.lpl[1], dict |-> st.dict, err |-> "none"]

(***************************************************************************)
(* The expander called on a loaded ParameterSet                            *)
(***************************************************************************)
\* A parameter as the parameter file declares it: value, kind, and whether
\* prior bounds are given (only free and shared parameters carry priors).
Entry(b, v, k, bnd) ==
    [name |-> DeclName(b), vals |-> [value |-> v, ptype |-> k, bounded |-> bnd]]

DistinctNames(ps) == \A i, j \in 1..Len(ps) : ps[i].name = ps[j].name => i = j

\* ParameterSets of at most MaxParams declared parameters whose free and
\* shared parameters all carry prior bounds
BoundedEntries ==
    {Entry(b, v, k, k \in {"free", "shared"}) :
        b \in BaseNames, v \in ParamValues, k \in Kinds}

ParamSets ==
    {ps \in UNION {[1..m -> BoundedEntries] : m \in 0..MaxParams} : DistinctNames(ps)}

CallRecord(before, r) ==
    [before |-> before, shared |-> sharedp, n |-> nspecchan,
     lpl |-> r.lpl, titles |-> r.titles, err |-> r.err, after |-> r.dict]

\* longparamlist, paramtitles = make_longparamlist(meta, params), by a caller
\* holding the Parameters object
CallExpand ==
    /\ pc = "expander"
    /\ UNCHANGED <<dataVars, utilVars>>
    /\ error.kind = "none"
    /\ Len(calls) < MaxCalls
    /\ LET r == make_longparamlist(sharedp, nspecchan, params)
       IN  /\ params' = r.dict
           /\ longparamlist' = r.lpl
           /\ paramtitles' = r.titles
           /\ error' = [NoError EXCEPT !.kind = r.err]
           /\ calls' = Append(calls, CallRecord(params, r))
    /\ UNCHANGED <<nspecchan, sharedp, fileParams, fit_method, nconfig, pc, run_i,
                   channel, stage, fits, logs, saved, closed, fitter>>

InitExpand ==
    /\ params \in ParamSets
    /\ nspecchan \in ChanCounts
    /\ sharedp \in BOOLEAN
    /\ longparamlist = <<>>
    /\ paramtitles = <<>>
    /\ error = NoError
    /\ calls = <<>>
    /\ fileParams = params
    /\ fit_method = <<>>
    /\ nconfig = 0
    /\ pc = "expander"
    /\ run_i = 0
    /\ channel = 0
    /\ stage = 0
    /\ fits = <<>>
    /\ logs = <<>>
    /\ saved = <<>>
    /\ closed = {}
    /\ fitter = "none"
    /\ NoData
    /\ NoUtil

NextExpand == CallExpand

SpecExpand == InitExpand /\ [][NextExpand]_vars

(***************************************************************************)
(* util.makedirectory                                                      *)
(*                                                                         *)
(* The stage, the date and the event label are the same for all calls, so  *)
(* a run directory <stage>_<date>_<eventlabel>_run<n> is known by n; the   *)
(* folder nested under it by the keyword arguments is [run, ap, bg].       *)
(***************************************************************************)
MaxMakes == 3       \* calls of makedirectory
MaxOldRun == 2      \* largest run number found on disk at the start

\* counter=None
None == 0

ApValues == {8, 9}
BgValues == {10}

OutDir(n, ap, bg) == [run |-> n, ap |-> ap, bg |-> bg]

\* the search given up: the counter stays where it starts
FirstFree_NoSearch(existing, c) == c

\* counter = 1; while os.path.exists(outputdir+str(counter)): counter += 1
RECURSIVE FirstFree(_, _)
FirstFree(existing, c) ==
    IF c \in existing THEN FirstFree(existing, c + 1) ELSE c

\* makedirectory(meta, stage, counter, ap=.., bg=..) on the file system fsys;
\* writable says whether os.makedirs(outputdir) is allowed, figsok whether
\* os.makedirs of its figs folder is.  The result is the file system left
\* behind, the run number returned and the exception raised ("none" when it
\* returns): the PermissionError with the topdir guidance raised in the
\* except clause, or the OSError of the unguarded figs call as it is.
makedirectory(fsys, counter, ap, bg, writable, figsok) ==
    LET n == IF counter = None THEN FirstFree(fsys.runs, 1) ELSE counter
        out == OutDir(n, ap, bg)
        made == [runs |-> fsys.runs \cup {n},
                 dirs |-> fsys.dirs \cup {out},
                 figs |-> fsys.figs]
    IN  IF out \notin fsys.dirs /\ ~writable
        THEN [fs |-> fsys, run |-> None, err |-> "PermissionError"]
        ELSE IF out \notin fsys.figs /\ ~figsok
        THEN [fs |-> made, run |-> None, err |-> "OSError"]
        ELSE [fs |-> [made EXCEPT !.figs = @ \cup {out}],
              run |-> n, err |-> "none"]

\* pathdirectory(meta, stage, run, ap=.., bg=..): the path is put together
\* from the run number and the keyword arguments, nothing is looked up
pathdirectory(run, ap, bg) == [run |-> run, ap |-> ap, bg |-> bg]

\* one call of makedirectory, recorded with the file system it found
MakeCall(counter, ap, bg, writable, figsok) ==
    LET r == makedirectory(fs, counter, ap, bg, writable, figsok)
    IN  /\ fs' = r.fs
        /\ runs' = Append(runs, [counter |-> counter, ap |-> ap, bg |-> bg,
                                 before |-> fs, run |-> r.run, err |-> r.err])

\* run = util.makedirectory(meta, stage, ap=.., bg=..)
MakeAuto ==
    /\ pc = "dirs"
    /\ Len(runs) < MaxMakes
    /\ \E ap \in ApValues, bg \in BgValues : MakeCall(None, ap, bg, TRUE, TRUE)
    /\ UNCHANGED <<fitVars, error, pc, dataVars, s4files, s4loaded, nandata,
                   nanmask, nanlog>>

\* util.makedirectory(meta, stage, counter, ap=.., bg=..) with a forced counter
MakeForced ==
    /\ pc = "dirs"
    /\ Len(runs) < MaxMakes
    /\ \E c \in 1..MaxOldRun, ap \in ApValues, bg \in BgValues :
          MakeCall(c, ap, bg, TRUE, TRUE)
    /\ UNCHANGED <<fitVars, error, pc, dataVars, s4files, s4loaded, nandata,
                   nanmask, nanlog>>

\* a call that finds the output root not writable
MakeDenied ==
    /\ pc = "dirs"
    /\ Len(runs) < MaxMakes
    /\ \E ap \in ApValues, bg \in BgValues : MakeCall(None, ap, bg, FALSE, TRUE)
    /\ UNCHANGED <<fitVars, error, pc, dataVars, s4files, s4loaded, nandata,
                   nanmask, nanlog>>

\* run directories of earlier runs of the same day, each with one folder
InitDirs ==
    /\ pc = "dirs"
    /\ error = NoError
    /\ \E old \in SUBSET (1..MaxOldRun), ap \in ApValues, bg \in BgValues :
          fs = [runs |-> old,
                dirs |-> {OutDir(n, ap, bg) : n \in old},
                figs |-> {OutDir(n, ap, bg) : n \in old}]
    /\ runs = <<>>
    /\ s4files = [top |-> {}, sub |-> {}]
    /\ s4loaded = <<>>
    /\ nandata = <<>>
    /\ nanmask = <<>>
    /\ nanlog = <<>>
    /\ NoFit
    /\ NoData

NextDirs == MakeAuto \/ MakeForced \/ MakeDenied

SpecDirs == InitDirs /\ [][NextDirs]_vars

(***************************************************************************)
(* fitJWST and fit_channel                                                 *)
(***************************************************************************)
\* the emcee and dynesty blocks exchanged
FitterOrder_Swapped == <<"lsq", "dynesty", "emcee", "lmfit">>

\* The fitter blocks of fit_channel, in the order the source lists them
FitterOrder == <<"lsq", "emcee", "dynesty", "lmfit">>

Fitters == Range(FitterOrder)

\* fit_method of the control file: any listing of any subset of the fitters
FitMethods ==
    {m \in UNION {[1..l -> Fitters] : l \in 0..Len(FitterOrder)} :
        \A i, j \in 1..Len(m) : m[i] = m[j] => i = j}

\* The ParameterSets a run is started with: t0 is always declared (fitJWST
\* reads params.t0), a second parameter may follow; a free parameter may come
\* without prior bounds.
RunEntries(b, kinds) ==
    {e \in {Entry(b, 10, k, bnd) : k \in kinds, bnd \in BOOLEAN} :
        /\ e.vals.bounded => e.vals.ptype \in {"free", "shared"}
        /\ e.vals.ptype = "shared" => e.vals.bounded}

RunParamSets ==
    {<<t>> : t \in RunEntries("t0", {"free", "fixed"})}
    \cup {<<t, r>> : t \in RunEntries("t0", {"free", "fixed"}), r \in RunEntries("rp", Kinds)}

\* the configuration being processed: run_i was incremented at its start
Cfg == run_i - 1

\* only the first parameter of the file is looked at
SharedDetect_First(dict) == Len(dict) > 0 /\ dict[1].vals.ptype = "shared"

\* sharedp of fitJWST: any parameter whose values hold 'shared'
SharedDetect(dict) == \E i \in 1..Len(dict) : dict[i].vals.ptype = "shared"

LogEntry(msg, f) == [cfg |-> Cfg, chan |-> channel, msg |-> msg, fitter |-> f]

FitCall(f) == [cfg |-> Cfg, chan |-> channel, fitter |-> f]

\* the fitters that sample a posterior and need prior bounds
Sampling == {"emcee", "dynesty"}

\* a free parameter declared without prior bounds
UnboundedFree(dict) ==
    \E i \in 1..Len(dict) : dict[i].vals.ptype = "free" /\ ~dict[i].vals.bounded

\* a sampling fitter left out when a free parameter has no prior bounds
Requested_Validating(f) ==
    f \in Range(fit_method) /\ ~(f \in Sampling /\ UnboundedFree(params))

\* 'lsq' in meta.fit_method, 'emcee' in meta.fit_method, ...
Requested(f) == f \in Range(fit_method)

\* an error of the backend caught in fit_channel, which goes on
BackendRaises_Caught(f) ==
    /\ error' = [kind |-> "FitterError", cfg |-> Cfg, chan |-> channel, fitter |-> f]
    /\ pc' = pc
    /\ stage' = stage + 1

\* lc_model.fit(...) raises: nothing in fit_channel or fitJWST catches it, so
\* the exception leaves fitJWST
BackendRaises(f) ==
    /\ error' = [kind |-> "FitterError", cfg |-> Cfg, chan |-> channel, fitter |-> f]
    /\ pc' = "failed"
    /\ stage' = stage

\* one save file that every configuration overwrites
Persist_Overwrite(k) == <<k>>

\* me.saveevent(meta, meta.outputdir + ..._Meta_Save): the configuration's own
\* save file is written
Persist(k) == Append(saved, k)

\* chanrng: [0] while testing, range(meta.nspecchan) otherwise
ChanRng(testing, n) == IF testing THEN <<0>> ELSE [i \in 1..n |-> i - 1]

\* the background loop outside the aperture loop
PairAt_BgOuter(i) ==
    [ap |-> spec_hw_range[(i % Len(spec_hw_range)) + 1],
     bg |-> bg_hw_range[(i \div Len(spec_hw_range)) + 1]]

\* for spec_hw_val in meta.spec_hw_range: for bg_hw_val in meta.bg_hw_range:
\* the pair of iteration i (from 0) of the nested loops
PairAt(i) ==
    [ap |-> spec_hw_range[(i \div Len(bg_hw_range)) + 1],
     bg |-> bg_hw_range[(i % Len(bg_hw_range)) + 1]]

\* Times and the value of t0 are counted in ticks, TimeResolution to a day.
TimeResolution == 4

\* t_offset = int(np.floor(meta.bjdtdb[0])), in ticks
TimeOffset(t) == (t[1] \div TimeResolution) * TimeResolution

\* meta.bjdtdb - t_offset: a new array
ShiftTimes(t, off) == [i \in 1..Len(t) |-> t[i] - off]

\* the offset taken off every parameter
ShiftT0_All(dict, off) ==
    [i \in 1..Len(dict) |-> [dict[i] EXCEPT !.vals.value = @ - off]]

\* params.t0.value -= t_offset
ShiftT0(dict, off) ==
    [i \in 1..Len(dict) |->
        IF dict[i].name = DeclName("t0")
        THEN [dict[i] EXCEPT !.vals.value = @ - off]
        ELSE dict[i]]

\* Fluxes are whole numbers; a quotient is kept exact as [num, den].
Sum(row) ==
    LET RECURSIVE Upto(_)
        Upto(i) == IF i = 0 THEN 0 ELSE Upto(i - 1) + row[i]
    IN  Upto(Len(row))

\* np.mean(row), flux.mean()
Mean(row) == [num |-> Sum(row), den |-> Len(row)]

\* row / mean, element by element
DivAll(row, mean) ==
    [i \in 1..Len(row) |-> [num |-> row[i] * mean.den, den |-> mean.num]]

\* the uncertainty divided by the mean of the flux already normalized
NormalizeChannel_FluxFirst(flux, flux_err) ==
    [flux |-> DivAll(flux, Mean(flux)),
     unc |-> DivAll(flux_err, [num |-> 1, den |-> 1])]

\* flux_err = flux_err/ flux.mean(); flux = flux / flux.mean()
NormalizeChannel(flux, flux_err) ==
    [flux |-> DivAll(flux, Mean(flux)),
     unc |-> DivAll(flux_err, Mean(flux))]

\* only the flux is appended, the uncertainty stays empty
FlattenFrom_FluxOnly(i, acc) ==
    LET RECURSIVE Go(_, _)
        Go(j, a) ==
            IF j >= nspecchan THEN a
            ELSE Go(j + 1,
                    [flux |-> a.flux \o DivAll(lcdata[j + 1], Mean(lcdata[j + 1])),
                     unc |-> a.unc])
    IN  Go(i, acc)

\* every block divided by the mean of channel 0
FlattenFrom_FirstMean(i, acc) ==
    LET RECURSIVE Go(_, _)
        Go(j, a) ==
            IF j >= nspecchan THEN a
            ELSE Go(j + 1,
                    [flux |-> a.flux \o DivAll(lcdata[j + 1], Mean(lcdata[1])),
                     unc |-> a.unc \o DivAll(lcerr[j + 1], Mean(lcdata[1]))])
    IN  Go(i, acc)

\* for i in np.arange(meta.nspecchan): flux = np.append(flux, ...);
\* flux_err = np.append(flux_err, ...), from channel i on
RECURSIVE FlattenFrom(_, _)
FlattenFrom(i, acc) ==
    IF i >= nspecchan THEN acc
    ELSE FlattenFrom(i + 1,
            [flux |-> acc.flux \o DivAll(lcdata[i + 1], Mean(lcdata[i + 1])),
             unc |-> acc.unc \o DivAll(lcerr[i + 1], Mean(lcdata[i + 1]))])

\* the run number taken to be the position in the list
RunOf_Position(i) == i + 1

\* meta.runs_s5[run_i]: what the makedirectory call i (from 0) returned
RunOf(i) == runs[i + 1].run

\* The top of the body of the configuration loop: the upstream metadata is
\* loaded, the log opened, the parameter file read, shared mode detected and
\* the time offset taken off the times and off t0.
BeginConfig ==
    /\ pc = "loop"
    /\ run_i < nconfig
    /\ UNCHANGED utilVars
    /\ run_i' = run_i + 1
    /\ spec_hw_val' = PairAt(run_i).ap
    /\ bg_hw_val' = PairAt(run_i).bg
    /\ outputdir' = pathdirectory(RunOf(run_i), PairAt(run_i).ap, PairAt(run_i).bg)
    /\ sharedp' = SharedDetect(fileParams)
    /\ LET t_offset == TimeOffset(bjdtdb)
       IN  /\ t_mjdtdb' = ShiftTimes(bjdtdb, t_offset)
           /\ params' = ShiftT0(fileParams, t_offset)
    /\ channel' = 0
    /\ pc' = "chan"
    /\ UNCHANGED <<testing_S5, chanrng, spec_hw_range, bg_hw_range, bjdtdb, lcdata,
                   lcerr, lcs>>
    /\ UNCHANGED <<nspecchan, longparamlist, paramtitles, error, calls, fileParams,
                   fit_method, nconfig, stage, fits, logs, saved, closed, fitter>>

\* what both branches do up to the first statement of fit_channel's fitting
\* part: expand the parameters, write the heading, build the LightCurve and
\* the CompositeModel
\* lc.LightCurve(t_mjdtdb, flux, chan, meta.nspecchan, log, longparamlist,
\* unc=flux_err, name=eventlabel, share=sharedp); ramp tells that fit_channel
\* multiplies an exponential ramp into the flux afterwards (meta.testing_S5)
LightCurve(time, flux, chan, nchan, lpl, unc, share) ==
    [cfg |-> Cfg, ap |-> spec_hw_val, bg |-> bg_hw_val, time |-> time,
     flux |-> flux, unc |-> unc, chan |-> chan, nchannel |-> nchan,
     longparamlist |-> lpl, share |-> share, ramp |-> testing_S5]

EnterFitChannel(msg, data) ==
    LET r == make_longparamlist(sharedp, nspecchan, params)
    IN  /\ params' = r.dict
        /\ longparamlist' = r.lpl
        /\ paramtitles' = r.titles
        /\ IF r.err # "none"
           THEN /\ error' = [NoError EXCEPT !.kind = r.err, !.cfg = Cfg]
                /\ pc' = "failed"
                /\ UNCHANGED <<logs, stage, fitter, lcs>>
           ELSE /\ error' = error
                /\ logs' = Append(logs, LogEntry(msg, "none"))
                /\ lcs' = Append(lcs, LightCurve(t_mjdtdb, data.flux, channel,
                                                 nspecchan, r.lpl, data.unc, sharedp))
                /\ stage' = 1
                /\ fitter' = "none"
                /\ pc' = "fit"

\* if sharedp: one fit of all channels, as channel 0
SharedFit ==
    /\ pc = "chan"
    /\ sharedp
    /\ UNCHANGED <<testing_S5, chanrng, spec_hw_range, bg_hw_range, spec_hw_val,
                   bg_hw_val, bjdtdb, lcdata, lcerr, t_mjdtdb, outputdir, utilVars>>
    /\ channel = 0
    /\ EnterFitChannel("Starting Shared Fit",
                       FlattenFrom(0, [flux |-> <<>>, unc |-> <<>>]))
    /\ UNCHANGED <<nspecchan, sharedp, calls, fileParams, fit_method, nconfig, run_i,
                   channel, fits, saved, closed>>

\* else: for channel in range(meta.nspecchan), one iteration
ChannelFit ==
    /\ pc = "chan"
    /\ ~sharedp
    /\ channel < nspecchan
    /\ UNCHANGED <<testing_S5, chanrng, spec_hw_range, bg_hw_range, spec_hw_val,
                   bg_hw_val, bjdtdb, lcdata, lcerr, t_mjdtdb, outputdir, utilVars>>
    /\ EnterFitChannel("Starting Channel",
                       NormalizeChannel(lcdata[channel + 1], lcerr[channel + 1]))
    /\ UNCHANGED <<nspecchan, sharedp, calls, fileParams, fit_method, nconfig, run_i,
                   channel, fits, saved, closed>>

\* the channel loop is exhausted
ChannelsDone ==
    /\ pc = "chan"
    /\ ~sharedp
    /\ channel >= nspecchan
    /\ UNCHANGED <<dataVars, utilVars>>
    /\ pc' = "save"
    /\ UNCHANGED <<params, nspecchan, sharedp, longparamlist, paramtitles, error,
                   calls, fileParams, fit_method, nconfig, run_i, channel, stage,
                   fits, logs, saved, closed, fitter>>

\* the tag left as it was
TagFor_Stale(f) == fitter

\* model.fitter = 'lsq', model.fitter = 'emcee', ...: the tag set in the
\* block of fitter f, before lc_model.fit is called
TagFor(f) == f

\* One "if '<fitter>' in meta.fit_method:" block of fit_channel.  The fitter
\* backend either returns or raises; nothing in fit_channel or fitJWST
\* catches what it raises.
FitStage ==
    /\ pc = "fit"
    /\ stage <= Len(FitterOrder)
    /\ UNCHANGED <<dataVars, utilVars>>
    /\ LET f == FitterOrder[stage]
       IN  \/ /\ ~Requested(f)
              /\ stage' = stage + 1
              /\ UNCHANGED <<fits, logs, fitter, error, pc>>
           \/ /\ Requested(f)
              /\ fitter' = TagFor(f)
              /\ fits' = Append(fits, FitCall(f))
              /\ logs' = logs \o <<LogEntry("Starting", f), LogEntry("Completed", f)>>
              /\ stage' = stage + 1
              /\ UNCHANGED <<error, pc>>
           \/ /\ Requested(f)
              /\ fitter' = TagFor(f)
              /\ fits' = Append(fits, FitCall(f))
              /\ logs' = Append(logs, LogEntry("Starting", f))
              /\ BackendRaises(f)
    /\ UNCHANGED <<params, nspecchan, sharedp, longparamlist, paramtitles, calls,
                   fileParams, fit_method, nconfig, run_i, channel, saved, closed>>

\* fit_channel returns: the per-channel loop goes on with the next channel,
\* the shared branch is done
ReturnFitChannel ==
    /\ pc = "fit"
    /\ stage > Len(FitterOrder)
    /\ UNCHANGED <<dataVars, utilVars>>
    /\ IF sharedp
       THEN pc' = "save" /\ channel' = channel
       ELSE pc' = "chan" /\ channel' = channel + 1
    /\ UNCHANGED <<params, nspecchan, sharedp, longparamlist, paramtitles, error,
                   calls, fileParams, fit_method, nconfig, run_i, stage, fits, logs,
                   saved, closed, fitter>>

\* log.writelog('Saving results'); me.saveevent(...)
SaveConfig ==
    /\ pc = "save"
    /\ UNCHANGED <<dataVars, utilVars>>
    /\ logs' = Append(logs, [cfg |-> Cfg, chan |-> 0, msg |-> "Saving results",
                             fitter |-> "none"])
    /\ saved' = Persist(Cfg)
    /\ pc' = "close"
    /\ UNCHANGED <<params, nspecchan, sharedp, longparamlist, paramtitles, error,
                   calls, fileParams, fit_method, nconfig, run_i, channel, stage,
                   fits, closed, fitter>>

\* log.closelog(), the last statement of the loop body
CloseLog ==
    /\ pc = "close"
    /\ UNCHANGED <<dataVars, utilVars>>
    /\ closed' = closed \cup {Cfg}
    /\ pc' = "loop"
    /\ UNCHANGED <<params, nspecchan, sharedp, longparamlist, paramtitles, error,
                   calls, fileParams, fit_method, nconfig, run_i, channel, stage,
                   fits, logs, saved, fitter>>

\* both loops are exhausted: return meta
Finish ==
    /\ pc = "loop"
    /\ run_i >= nconfig
    /\ UNCHANGED <<dataVars, utilVars>>
    /\ pc' = "done"
    /\ UNCHANGED <<params, nspecchan, sharedp, longparamlist, paramtitles, error,
                   calls, fileParams, fit_method, nconfig, run_i, channel, stage,
                   fits, logs, saved, closed, fitter>>

\* meta.spec_hw_range, meta.bg_hw_range: n consecutive half-widths
HwRange(n, first) == [i \in 1..n |-> first + i - 1]

\* samples of a light curve
MaxSamples == 2

\* the arrays of the Stage 4 metadata used where the data do not matter
DefaultTimes == [i \in 1..MaxSamples |-> 8 + i]
DefaultFlux(n) == [c \in 1..n |-> [i \in 1..MaxSamples |-> 2 * (c + i)]]
DefaultErr(n) == [c \in 1..n |-> [i \in 1..MaxSamples |-> 1]]

\* What fitJWST holds before its loops: the ecf and the parameter file are
\* read, chanrng is set and nothing has been fitted.
InitBody ==
    /\ nconfig = Len(spec_hw_range) * Len(bg_hw_range)
    /\ chanrng = ChanRng(testing_S5, nspecchan)
    /\ spec_hw_val = 0
    /\ bg_hw_val = 0
    /\ t_mjdtdb = <<>>
    /\ lcs = <<>>
    /\ outputdir = NoDir
    /\ params = <<>>
    /\ sharedp = FALSE
    /\ longparamlist = <<>>
    /\ paramtitles = <<>>
    /\ error = NoError
    /\ calls = <<>>
    /\ run_i = 0
    /\ channel = 0
    /\ stage = 0
    /\ fits = <<>>
    /\ logs = <<>>
    /\ saved = <<>>
    /\ closed = {}
    /\ fitter = "none"
    /\ s4files = [top |-> {}, sub |-> {}]
    /\ s4loaded = <<>>
    /\ nandata = <<>>
    /\ nanmask = <<>>
    /\ nanlog = <<>>

\* call i (from 0) of the makedirectory loop, the directory made: st holds
\* the file system and the calls so far
MakeOne(i, st) ==
    LET r == makedirectory(st.fs, None, PairAt(i).ap, PairAt(i).bg, TRUE, TRUE)
    IN  [fs |-> r.fs,
         runs |-> Append(st.runs,
                    [counter |-> None, ap |-> PairAt(i).ap, bg |-> PairAt(i).bg,
                     before |-> st.fs, run |-> r.run, err |-> r.err])]

\* the makedirectory loop run to its end from call i (from 0) on
RECURSIVE MakeAll(_, _)
MakeAll(i, st) ==
    IF i >= Len(spec_hw_range) * Len(bg_hw_range) THEN st
    ELSE CHOOSE done \in {MakeAll(i + 1, MakeOne(i, s)) : s \in {st}} : TRUE

\* The state when fitJWST reaches its configuration loops with an output
\* root that was empty: the directories of all configurations are made.
InitRun ==
    /\ InitBody
    /\ pc = "loop"
    /\ \E made \in {MakeAll(0, [fs |-> [runs |-> {}, dirs |-> {}, figs |-> {}],
                                 runs |-> <<>>])} :
          fs = made.fs /\ runs = made.runs

Init ==
    /\ fileParams \in RunParamSets
    /\ fit_method \in FitMethods
    /\ nspecchan \in 1..MaxRunChan
    /\ testing_S5 = FALSE
    /\ spec_hw_range \in {HwRange(n, 8) : n \in 1..MaxConfigs}
    /\ bg_hw_range = HwRange(1, 10)
    /\ bjdtdb = DefaultTimes
    /\ lcdata = DefaultFlux(nspecchan)
    /\ lcerr = DefaultErr(nspecchan)
    /\ InitRun

Next ==
    \/ BeginConfig
    \/ SharedFit
    \/ ChannelFit
    \/ ChannelsDone
    \/ FitStage
    \/ ReturnFitChannel
    \/ SaveConfig
    \/ CloseLog
    \/ Finish

Spec == Init /\ [][Next]_vars

\* Runs over varying apertures, backgrounds and the testing flag, one fitter.
MaxAp == 2
MaxBg == 2

InitConfigs ==
    /\ fileParams \in RunParamSets
    /\ fit_method = <<"lsq">>
    /\ nspecchan \in 1..MaxRunChan
    /\ testing_S5 \in BOOLEAN
    /\ spec_hw_range \in {HwRange(n, 8) : n \in 1..MaxAp}
    /\ bg_hw_range \in {HwRange(n, 10) : n \in 1..MaxBg}
    /\ bjdtdb = DefaultTimes
    /\ lcdata = DefaultFlux(nspecchan)
    /\ lcerr = DefaultErr(nspecchan)
    /\ InitRun

SpecConfigs == InitConfigs /\ [][Next]_vars

\* Runs of one configuration over varying light curves and times.
FluxValues == {2, 4}
StartTimes == {8, 11}

DataParamSets ==
    {ps \in RunParamSets :
        /\ ps[1].vals.ptype = "free" /\ ps[1].vals.bounded
        /\ Len(ps) = 2 => (ps[2].vals.ptype = "free" => ps[2].vals.bounded)}

ErrPatterns(n) ==
    {DefaultErr(n), [c \in 1..n |-> [i \in 1..MaxSamples |-> c + i]]}

InitData ==
    /\ fileParams \in DataParamSets
    /\ fit_method = <<"lsq">>
    /\ nspecchan \in 1..MaxRunChan
    /\ testing_S5 = FALSE
    /\ spec_hw_range = HwRange(1, 8)
    /\ bg_hw_range = HwRange(1, 10)
    /\ bjdtdb \in {[i \in 1..MaxSamples |-> s + i - 1] : s \in StartTimes}
    /\ lcdata \in [1..nspecchan -> [1..MaxSamples -> FluxValues]]
    /\ lcerr \in ErrPatterns(nspecchan)
    /\ InitRun

SpecData == InitData /\ [][Next]_vars

\* Runs from the makedirectory loop on, over output roots that hold the run
\* directories of earlier runs.

\* the loop going on after a call that raised
NextAfterMake_Continue(err, made) == IF made = nconfig THEN "loop" ELSE "mkdirs"

\* where fitJWST stands after a call of the makedirectory loop: an exception
\* leaves fitJWST, the last call leads to the configuration loops
NextAfterMake(err, made) ==
    IF err # "none" THEN "failed"
    ELSE IF made = nconfig THEN "loop" ELSE "mkdirs"

\* run = util.makedirectory(meta, 'S5', ap=spec_hw_val, bg=bg_hw_val);
\* meta.runs_s5.append(run)
MakeRunDir ==
    /\ pc = "mkdirs"
    /\ Len(runs) < nconfig
    /\ \E writable, figsok \in BOOLEAN :
          LET ap == PairAt(Len(runs)).ap
              bg == PairAt(Len(runs)).bg
              r == makedirectory(fs, None, ap, bg, writable, figsok)
          IN  /\ MakeCall(None, ap, bg, writable, figsok)
              /\ pc' = NextAfterMake(r.err, Len(runs) + 1)
              /\ error' = IF r.err = "none" THEN error
                          ELSE [NoError EXCEPT !.kind = r.err]
    /\ UNCHANGED <<fitVars, dataVars, s4files, s4loaded, nandata, nanmask, nanlog>>

InitRunDirs ==
    /\ fileParams \in DataParamSets
    /\ fit_method = <<"lsq">>
    /\ nspecchan \in 1..MaxRunChan
    /\ testing_S5 = FALSE
    /\ spec_hw_range \in {HwRange(n, 8) : n \in 1..MaxAp}
    /\ bg_hw_range \in {HwRange(n, 10) : n \in 1..MaxBg}
    /\ bjdtdb = DefaultTimes
    /\ lcdata = DefaultFlux(nspecchan)
    /\ lcerr = DefaultErr(nspecchan)
    /\ InitBody
    /\ pc = "mkdirs"
    /\ \E old \in SUBSET (1..MaxOldRun), ap \in ApValues, bg \in BgValues :
          fs = [runs |-> old,
                dirs |-> {OutDir(n, ap, bg) : n \in old},
                figs |-> {OutDir(n, ap, bg) : n \in old}]
    /\ runs = <<>>

NextRunDirs == MakeRunDir \/ Next

SpecRunDirs == InitRunDirs /\ [][NextRunDirs]_vars

(***************************************************************************)
(* read_s4_meta                                                            *)
(***************************************************************************)
MaxPaths == 2       \* metadata files a folder may hold
MaxTime == 2        \* the latest modification time

\* A Stage 4 metadata file: its path, numbered in the order of the names, and
\* the time it was written.
MetaFiles == [path : 1..MaxPaths, mtime : 1..MaxTime]

NoFile == [path |-> 0, mtime |-> 0]

\* the contents a folder may have: no two files of one path
Folders == {f \in SUBSET MetaFiles : \A a, b \in f : a.path = b.path => a = b}

\* glob.glob(pattern): the matching files, in arbitrary order
Globs(found) == {seq \in [1..Cardinality(found) -> found] : Range(seq) = found}

\* sn.sort_nicely(files): the names in ascending order
sort_nicely(files) ==
    CHOOSE seq \in Globs(Range(files)) :
        \A i, j \in 1..Len(seq) : i < j => seq[i].path < seq[j].path

\* read_s4_meta, given what the two globs would return
read_s4_meta(topglob, subglob) ==
    LET files == IF Len(topglob) = 0 THEN sort_nicely(subglob) ELSE topglob
    IN  IF Len(files) = 0
        THEN [files |-> files, err |-> "AssertionError", warning |-> FALSE,
              fname |-> NoFile]
        ELSE [files |-> files, err |-> "none", warning |-> Len(files) > 1,
              fname |-> files[Len(files)]]

\* fitJWST without s4_meta: s4_meta = read_s4_meta(meta)
ReadS4Meta ==
    /\ pc = "meta"
    /\ \E topglob \in Globs(s4files.top), subglob \in Globs(s4files.sub) :
          LET r == read_s4_meta(topglob, subglob)
          IN  /\ s4loaded' = Append(s4loaded, r)
              /\ IF r.err = "none"
                 THEN pc' = "loaded" /\ error' = error
                 ELSE pc' = "failed" /\ error' = [NoError EXCEPT !.kind = r.err]
    /\ UNCHANGED <<fitVars, dataVars, fs, runs, s4files, nandata, nanmask, nanlog>>

InitMeta ==
    /\ pc = "meta"
    /\ error = NoError
    /\ s4files \in [top : Folders, sub : Folders]
    /\ s4loaded = <<>>
    /\ fs = [runs |-> {}, dirs |-> {}, figs |-> {}]
    /\ runs = <<>>
    /\ nandata = <<>>
    /\ nanmask = <<>>
    /\ nanlog = <<>>
    /\ NoFit
    /\ NoData

NextMeta == ReadS4Meta

SpecMeta == InitMeta /\ [][NextMeta]_vars

(***************************************************************************)
(* check_nans                                                              *)
(***************************************************************************)
MaxPixels == 3      \* entries of the data array and of the mask

\* the entries of a data array: a number or NaN
DataValues ==
    {[nan |-> TRUE, v |-> 0], [nan |-> FALSE, v |-> 0], [nan |-> FALSE, v |-> 5]}

\* np.isnan(data)
isnan(data) == {i \in 1..Len(data) : data[i].nan}

\* the mask is left as it is
MaskNans_None(data, mask) == mask

\* inan = np.where(np.isnan(data)); mask[inan] = 0
MaskNans(data, mask) ==
    [i \in 1..Len(mask) |-> IF i \in isnan(data) THEN 0 ELSE mask[i]]

\* check_nans(data, mask, log, name): the mask returned (the caller's mask,
\* changed in place) and the lines written to the log
check_nans(data, mask) ==
    LET num_nans == Cardinality(isnan(data))
    IN  IF num_nans > 0
        THEN [mask |-> MaskNans(data, mask),
              log |-> <<[msg |-> "WARNING", num_nans |-> num_nans]>>]
        ELSE [mask |-> mask, log |-> <<>>]

\* a caller's mask = check_nans(data, mask, log, name)
CheckNans ==
    /\ pc = "nans"
    /\ LET r == check_nans(nandata, nanmask)
       IN  /\ nanmask' = r.mask
           /\ nanlog' = Append(nanlog, [data |-> nandata, mask |-> nanmask,
                                        returned |-> r.mask, log |-> r.log])
    /\ pc' = "checked"
    /\ UNCHANGED <<fitVars, error, dataVars, fs, runs, s4files, s4loaded, nandata>>

InitNans ==
    /\ pc = "nans"
    /\ error = NoError
    /\ \E n \in 1..MaxPixels :
          /\ nandata \in [1..n -> DataValues]
          /\ nanmask \in [1..n -> {0, 1}]
    /\ nanlog = <<>>
    /\ fs = [runs |-> {}, dirs |-> {}, figs |-> {}]
    /\ runs = <<>>
    /\ s4files = [top |-> {}, sub |-> {}]
    /\ s4loaded = <<>>
    /\ NoFit
    /\ NoData

NextNans == CheckNans

SpecNans == InitNans /\ [][NextNans]_vars

(***************************************************************************)
(* Claims about fit_channel and fitJWST (checked under Spec)               *)
(***************************************************************************)
\* the priority order the fitters are to run in
PriorityOrder == <<"lsq", "emcee", "dynesty", "lmfit">>

InMethod(f) == f \in Range(fit_method)

\* the fitters fit_method lists, in priority order
WantedInOrder == SelectSeq(PriorityOrder, InMethod)

\* the fitters invoked on the LightCurve of configuration k, channel c, in order
FitsOf(k, c) ==
    LET Mine(x) == x.cfg = k /\ x.chan = c
        mine == SelectSeq(fits, Mine)
    IN  [i \in 1..Len(mine) |-> mine[i].fitter]

IsPrefix(s, t) == Len(s) <= Len(t) /\ \A i \in 1..Len(s) : s[i] = t[i]

Count(s, x) == Cardinality({i \in 1..Len(s) : s[i] = x})

\* the channels fit_channel is called for in one configuration
FitChannels == IF SharedDetect(fileParams) THEN {0} ELSE 0..(nspecchan - 1)

ReturningFromFitChannel == pc = "fit" /\ stage > Len(FitterOrder)

SamplingRequested == \E f \in Sampling : InMethod(f)

\* C7 as stated: with a free parameter without prior bounds and a sampling
\* fitter requested, the run ends with a ConfigurationError and no fitter
\* stage is ever invoked.
C7_FailFast ==
    (UnboundedFree(fileParams) /\ SamplingRequested) =>
        /\ fits = <<>>
        /\ pc \in {"done", "failed"} => error.kind = "ConfigurationError"

\* C7 as amended: with a free parameter without prior bounds and a sampling
\* fitter requested, fitJWST and fit_channel check no bounds and raise no
\* ConfigurationError: every requested fitter stage is invoked in priority
\* order, and the run fails only with the error of a fitter backend that was
\* invoked.
C7_NoValidation ==
    (UnboundedFree(fileParams) /\ SamplingRequested) =>
        /\ error.kind \in {"none", "FitterError"}
        /\ error.kind = "FitterError" =>
              /\ fits # <<>>
              /\ fits[Len(fits)] =
                    [cfg |-> error.cfg, chan |-> error.chan, fitter |-> error.fitter]
        /\ ReturningFromFitChannel => FitsOf(Cfg, channel) = WantedInOrder
        /\ pc = "done" =>
              \A k \in 0..(nconfig - 1), c \in FitChannels : FitsOf(k, c) = WantedInOrder

C7_Witness ==
    /\ UnboundedFree(fileParams)
    /\ InMethod("emcee")
    /\ ReturningFromFitChannel
    /\ "emcee" \in Range(FitsOf(Cfg, channel))
    /\ error.kind = "none"

\* C8: whatever subset of the fitters fit_method lists, in whatever order,
\* fit_channel runs on its LightCurve the requested fitters only, each once,
\* in the order lsq, emcee, dynesty, lmfit, and all of them when it returns.
C8_FixedOrder ==
    /\ \A k \in 0..(nconfig - 1), c \in 0..(nspecchan - 1) :
          IsPrefix(FitsOf(k, c), WantedInOrder)
    /\ ReturningFromFitChannel => FitsOf(Cfg, channel) = WantedInOrder
    /\ pc = "done" =>
          \A k \in 0..(nconfig - 1), c \in FitChannels : FitsOf(k, c) = WantedInOrder

C8_Witness ==
    /\ fit_method = <<"lmfit", "dynesty", "emcee">>
    /\ pc = "done"
    /\ nconfig = 2
    /\ FitsOf(1, 0) = <<"emcee", "dynesty", "lmfit">>

\* C9: an error raised by a fitter backend is not caught: no later fitter
\* stage runs for that LightCurve, the stage's Completed entry is not
\* written to the log, and the configuration's results are not saved.
C9_ErrorPropagates ==
    error.kind = "FitterError" =>
        /\ pc = "failed"
        /\ fits # <<>>
        /\ fits[Len(fits)] =
              [cfg |-> error.cfg, chan |-> error.chan, fitter |-> error.fitter]
        /\ Count(FitsOf(error.cfg, error.chan), error.fitter) = 1
        /\ logs[Len(logs)] = [cfg |-> error.cfg, chan |-> error.chan,
                              msg |-> "Starting", fitter |-> error.fitter]
        /\ [cfg |-> error.cfg, chan |-> error.chan, msg |-> "Completed",
            fitter |-> error.fitter] \notin Range(logs)
        /\ error.cfg \notin Range(saved)
        /\ error.cfg \notin closed

C9_Witness ==
    /\ error.kind = "FitterError"
    /\ error.fitter = "emcee"
    /\ fit_method = <<"dynesty", "emcee", "lsq">>
    /\ FitsOf(error.cfg, error.chan) = <<"lsq", "emcee">>
    /\ error.chan = 1

\* what configuration k has on disk: its log entries and its save file
OutputsOf(k) ==
    LET Mine(x) == x.cfg = k
    IN  [log |-> SelectSeq(logs, Mine), nsaved |-> Count(saved, k)]

\* C10 as stated: a fitter error aborts only the configuration it was raised
\* in, so that when the run has ended every other configuration has its
\* results saved and its log closed.
C10_OnlyThatConfig ==
    (pc = "failed" /\ error.kind = "FitterError") =>
        \A k \in 0..(nconfig - 1) :
            k # error.cfg => (Count(saved, k) = 1 /\ k \in closed)

\* C10 as amended: a fitter error aborts the configuration it was raised in
\* and with it the rest of the run (no later configuration is started);
\* every configuration completed before the failure has its results saved
\* and its log closed, and the outputs of a completed configuration never
\* change afterwards.
C10_CompletedKept ==
    /\ [](error.kind = "FitterError" =>
            /\ saved = [i \in 1..error.cfg |-> i - 1]
            /\ closed = 0..(error.cfg - 1)
            /\ run_i = error.cfg + 1
            /\ \A k \in 0..(error.cfg - 1) :
                  LET log == OutputsOf(k).log
                  IN  log # <<>> /\ log[Len(log)].msg = "Saving results")
    /\ [][\A k \in closed : OutputsOf(k)' = OutputsOf(k)]_vars

C10_Witness ==
    /\ error.kind = "FitterError"
    /\ error.cfg = 1
    /\ saved = <<0>>
    /\ closed = {0}
    /\ nconfig = 2

\* the last fitter of fit_method in priority order, "none" when it lists none
LastWanted ==
    IF WantedInOrder = <<>> THEN "none" ELSE WantedInOrder[Len(WantedInOrder)]

\* the fitter invoked last on the LightCurve at hand, "none" before the first
LastInvoked ==
    LET mine == FitsOf(Cfg, channel)
    IN  IF mine = <<>> THEN "none" ELSE mine[Len(mine)]

\* C23: whenever a fitter is invoked in fit_channel the CompositeModel's
\* fitter tag is the kind of that fitter; when fit_channel returns the tag is
\* the last requested fitter in priority order (lsq, emcee, dynesty, lmfit);
\* the tag is never set when no fitter is requested.
C23_ActiveFitterTag ==
    /\ pc = "fit" => fitter = LastInvoked
    /\ error.kind = "FitterError" => fitter = error.fitter
    /\ ReturningFromFitChannel => fitter = LastWanted
    /\ WantedInOrder = <<>> => fitter = "none"
    /\ fitter \in Range(PriorityOrder) \cup {"none"}

C23_Witness ==
    /\ ReturningFromFitChannel
    /\ fit_method = <<"lmfit", "lsq">>
    /\ FitsOf(Cfg, channel) = <<"lsq", "lmfit">>
    /\ fitter = "lmfit"
    /\ Cfg = 1
    /\ channel = 1

(***************************************************************************)
(* Claims about the expander (checked under SpecExpand)                    *)
(***************************************************************************)
CallIds == 1..Len(calls)

\* the name base_c the claims speak of
Suffixed(base, c) == [base |-> base.base, suf |-> base.suf \o <<c>>]

FreeKeys(dict) == {i \in 1..Len(dict) : dict[i].vals.ptype = "free"}

SameLengths(lpl) == \A c, d \in 1..Len(lpl) : Len(lpl[c]) = Len(lpl[d])

\* C1: in shared mode with N >= 1 channels, a ParameterSet with exactly one
\* free parameter base gets N pairwise distinct names for it, base in channel
\* 0's list and base_c in channel c's list (c = 1..N-1), all channel lists
\* have the same length, and the parameter stored under base_c afterwards has
\* the value of base.
C1_OneFreeExpanded ==
    \A k \in CallIds :
        LET cl == calls[k]
        IN  (cl.shared /\ cl.n >= 1 /\ Cardinality(FreeKeys(cl.before)) = 1) =>
            LET base == cl.before[CHOOSE i \in FreeKeys(cl.before) : TRUE].name
                nameOf == [c \in 0..(cl.n - 1) |-> IF c = 0 THEN base ELSE Suffixed(base, c)]
            IN  /\ cl.err = "none"
                /\ Len(cl.lpl) = cl.n
                /\ \A c \in 0..(cl.n - 1) : nameOf[c] \in Range(cl.lpl[c + 1])
                /\ \A c, d \in 0..(cl.n - 1) : nameOf[c] = nameOf[d] => c = d
                /\ SameLengths(cl.lpl)
                /\ \A c \in 1..(cl.n - 1) :
                      /\ HasKey(cl.after, nameOf[c])
                      /\ Lookup(cl.after, nameOf[c]).value = Lookup(cl.before, base).value

C1_Witness ==
    \E k \in CallIds :
        /\ calls[k].shared /\ calls[k].n >= 3 /\ calls[k].err = "none"
        /\ Len(calls[k].before) = 2
        /\ Cardinality(FreeKeys(calls[k].before)) = 1
        /\ HasKey(calls[k].after, Suffixed(DeclName("rp"), 2))

\* C2: in shared mode every shared, fixed or independent parameter is appended
\* under its unchanged name to every channel's list; so with only fixed and
\* independent parameters and N > 1 channels all channel lists are identical
\* and equal paramtitles.
C2_UnchangedNames ==
    \A k \in CallIds :
        LET cl == calls[k]
        IN  (cl.shared /\ cl.n >= 1) =>
            /\ cl.err = "none"
            /\ Len(cl.lpl) = cl.n
            /\ \A i \in 1..Len(cl.before) :
                  cl.before[i].vals.ptype \in {"shared", "fixed", "independent"} =>
                      \A c \in 1..cl.n :
                          /\ Len(cl.lpl[c]) >= i
                          /\ cl.lpl[c][i] = cl.before[i].name
            /\ ((cl.n > 1 /\ \A i \in 1..Len(cl.before) :
                                cl.before[i].vals.ptype \in {"fixed", "independent"}) =>
                    /\ \A c \in 1..cl.n : cl.lpl[c] = cl.titles
                    /\ cl.titles = Keys(cl.before))

C2_Witness ==
    \E k \in CallIds :
        /\ calls[k].shared /\ calls[k].n = 3 /\ calls[k].err = "none"
        /\ Len(calls[k].before) = 2
        /\ calls[k].before[1].vals.ptype = "fixed"
        /\ calls[k].before[2].vals.ptype = "independent"
        /\ calls[k].lpl[3] = Keys(calls[k].before)

\* C3: two calls in a row on the same ParameterSet object, in shared mode
\* with a free parameter and N >= 2, return the same longparamlist and the
\* same paramtitles.
C3_SecondCallSame ==
    (/\ Len(calls) >= 2
     /\ calls[1].shared /\ calls[1].n >= 2
     /\ FreeKeys(calls[1].before) # {}) =>
        /\ calls[2].lpl = calls[1].lpl
        /\ calls[2].titles = calls[1].titles

\* C4: in shared mode with N >= 1 all N channel lists have the length of the
\* ParameterSet, position i of every list is the i-th parameter or its
\* channel-suffixed copy, and paramtitles is channel 0's list: the parameter
\* names in declaration order.
C4_ListShape ==
    \A k \in CallIds :
        LET cl == calls[k]
        IN  (cl.shared /\ cl.n >= 1) =>
            /\ cl.err = "none"
            /\ Len(cl.lpl) = cl.n
            /\ \A c \in 1..cl.n :
                  /\ Len(cl.lpl[c]) = Len(cl.before)
                  /\ \A i \in 1..Len(cl.before) :
                        cl.lpl[c][i] \in
                            {cl.before[i].name, Suffixed(cl.before[i].name, c - 1)}
            /\ cl.titles = cl.lpl[1]
            /\ cl.titles = Keys(cl.before)

C4_Witness ==
    \E k \in CallIds :
        /\ calls[k].shared /\ calls[k].n = 3 /\ calls[k].err = "none"
        /\ Len(calls[k].before) = 2
        /\ calls[k].before[1].vals.ptype = "shared"
        /\ calls[k].before[2].vals.ptype = "free"
        /\ calls[k].lpl[3][2] = Suffixed(calls[k].before[2].name, 2)

\* C5: with shared mode off the expander returns exactly one list that holds
\* every parameter once, under its own name, in declaration order, whatever
\* meta.nspecchan is, and synthesizes no parameter.
C5_SingleVirtualChannel ==
    \A k \in CallIds :
        LET cl == calls[k]
        IN  ~cl.shared =>
            /\ cl.err = "none"
            /\ Len(cl.lpl) = 1
            /\ cl.lpl[1] = Keys(cl.before)
            /\ cl.titles = Keys(cl.before)
            /\ cl.after = cl.before

C5_Witness ==
    \E k \in CallIds :
        /\ ~calls[k].shared /\ calls[k].n = 3 /\ calls[k].err = "none"
        /\ Len(calls[k].before) = 2
        /\ calls[k].before[1].vals.ptype = "free"
        /\ Len(calls[k].lpl) = 1

\* C6 as stated: expanding with a channel count <= 0 fails with a
\* ConfigurationError and returns no longparamlist.
C6_ConfigurationError ==
    \A k \in CallIds :
        calls[k].n <= 0 => (calls[k].err = "ConfigurationError" /\ calls[k].lpl = <<>>)

\* C6 as amended: in shared mode a channel count <= 0 ends the call with an
\* IndexError, no list is returned and the ParameterSet is left as it was;
\* with shared mode off the channel count is not looked at and the call
\* returns its single list.
C6_IndexErrorWhenShared ==
    \A k \in CallIds :
        LET cl == calls[k]
        IN  cl.n <= 0 =>
            /\ cl.shared => (/\ cl.err = "IndexError"
                             /\ cl.lpl = <<>> /\ cl.titles = <<>>
                             /\ cl.after = cl.before)
            /\ ~cl.shared => (cl.err = "none" /\ Len(cl.lpl) = 1)

C6_Witness ==
    \E k \in CallIds :
        /\ calls[k].shared /\ calls[k].n = 0 /\ calls[k].err = "IndexError"
        /\ Len(calls[k].before) = 2
        /\ error.kind = "IndexError"

(***************************************************************************)
(* Claims about makedirectory (checked under SpecDirs)                     *)
(***************************************************************************)
\* the calls without a forced counter that returned
AutoCalls == {i \in 1..Len(runs) : runs[i].counter = 0 /\ runs[i].err = "none"}

\* C11: makedirectory without a forced counter returns the smallest positive
\* n whose run directory does not exist yet and creates that run's directory;
\* so the calls without a forced counter all get different run numbers and
\* nothing an earlier run left on disk is lost.
C11_FreshRunNumber ==
    /\ \A i \in AutoCalls :
          LET r == runs[i]
          IN  /\ r.run >= 1
              /\ r.run \notin r.before.runs
              /\ \A m \in 1..(r.run - 1) : m \in r.before.runs
              /\ r.run \in fs.runs
              /\ [run |-> r.run, ap |-> r.ap, bg |-> r.bg] \in fs.dirs
    /\ \A i, j \in AutoCalls : runs[i].run = runs[j].run => i = j
    /\ \A i \in 1..Len(runs) :
          /\ runs[i].before.runs \subseteq fs.runs
          /\ runs[i].before.dirs \subseteq fs.dirs
          /\ runs[i].before.figs \subseteq fs.figs

C11_Witness ==
    /\ Len(runs) = 3
    /\ AutoCalls = {1, 2, 3}
    /\ runs[1].before.runs = {2}
    /\ runs[1].run = 1
    /\ runs[2].run = 3
    /\ runs[3].run = 4
    /\ runs[2].ap = runs[1].ap

(***************************************************************************)
(* Claims about the configurations of fitJWST (checked under SpecConfigs)  *)
(***************************************************************************)
\* the LightCurves built for configuration k
CurvesOf(k) == {i \in 1..Len(lcs) : lcs[i].cfg = k}

\* C12: with the testing flag set and nspecchan > 1, a configuration in
\* per-channel mode builds and fits channel 0 only.
C12_TestingOneChannel ==
    (testing_S5 /\ nspecchan > 1) =>
        \A i \in 1..Len(lcs) : ~lcs[i].share => lcs[i].chan = 0

\* at least one parameter of the file is of kind shared
HasSharedKind == \E e \in Range(fileParams) : e.vals.ptype = "shared"

\* the channels one list of the expansion was written for
ListCount == IF HasSharedKind THEN nspecchan ELSE 1

\* C13: a configuration is in shared mode exactly when the parameter file
\* holds a parameter of kind shared; the one flag decides the expansion, the
\* layout of the flux handed to fit_channel and the LightCurve's share flag.
C13_SharedModeFlag ==
    /\ run_i >= 1 => sharedp = HasSharedKind
    /\ \A i \in 1..Len(lcs) :
          /\ lcs[i].share = HasSharedKind
          /\ Len(lcs[i].longparamlist) = ListCount
          /\ Len(lcs[i].flux) = ListCount * MaxSamples
          /\ Len(lcs[i].unc) = ListCount * MaxSamples
          /\ HasSharedKind => lcs[i].chan = 0
    /\ \A k \in Range(saved) :
          Cardinality(CurvesOf(k)) = IF HasSharedKind THEN 1 ELSE nspecchan

C13_Witness ==
    /\ pc = "done"
    /\ HasSharedKind
    /\ nspecchan = 2
    /\ nconfig = 4
    /\ Len(lcs) = 4
    /\ \A i \in 1..4 : lcs[i].share /\ Len(lcs[i].flux) = 2 * MaxSamples

\* the (aperture, background) pair of the k-th configuration, k from 1, with
\* the aperture loop outside and the background loop inside
NestedOrder(k) ==
    LET ab == CHOOSE x \in (1..Len(spec_hw_range)) \X (1..Len(bg_hw_range)) :
                  (x[1] - 1) * Len(bg_hw_range) + x[2] = k
    IN  [ap |-> spec_hw_range[ab[1]], bg |-> bg_hw_range[ab[2]]]

\* a sequence of records whose cfg never goes back
CfgOrdered(seq) == \A i, j \in 1..Len(seq) : i < j => seq[i].cfg <= seq[j].cfg

SavingEntries(k) ==
    {i \in 1..Len(logs) : logs[i].cfg = k /\ logs[i].msg = "Saving results"}

\* C17: the configurations run strictly one after another in nested order,
\* apertures outside and backgrounds inside: all fit_channel calls of a
\* configuration have returned before it is persisted, it is persisted once,
\* its log is closed after that, and nothing of the next configuration
\* starts before the close.
C17_OneAfterAnother ==
    /\ run_i >= 1 =>
          [ap |-> spec_hw_val, bg |-> bg_hw_val] = NestedOrder(run_i)
    /\ \A i \in 1..Len(lcs) :
          [ap |-> lcs[i].ap, bg |-> lcs[i].bg] = NestedOrder(lcs[i].cfg + 1)
    /\ CfgOrdered(logs) /\ CfgOrdered(fits) /\ CfgOrdered(lcs)
    /\ saved = [i \in 1..Len(saved) |-> i - 1]
    /\ closed \subseteq Range(saved)
    /\ pc \in {"chan", "fit", "save"} =>
          closed = 0..(Cfg - 1) /\ Range(saved) = closed
    /\ pc = "close" => closed = 0..(Cfg - 1) /\ Range(saved) = 0..Cfg
    /\ pc \in {"loop", "done"} =>
          closed = 0..(run_i - 1) /\ Range(saved) = closed
    /\ \A k \in Range(saved) :
          /\ Cardinality(SavingEntries(k)) = 1
          /\ \A i \in SavingEntries(k), j \in 1..Len(logs) :
                logs[j].cfg = k => j <= i
          /\ Cardinality(CurvesOf(k)) = IF HasSharedKind THEN 1 ELSE nspecchan
          /\ \A i \in 1..Len(logs) :
                (logs[i].cfg = k /\ logs[i].msg = "Starting") =>
                    \E j \in (i + 1)..Len(logs) :
                        logs[j] = [logs[i] EXCEPT !.msg = "Completed"]

C17_Witness ==
    /\ pc = "done"
    /\ nspecchan = 1
    /\ saved = <<0, 1, 2, 3>>
    /\ closed = 0..3
    /\ [i \in 1..4 |-> <<lcs[i].ap, lcs[i].bg>>] =
          <<<<8, 10>>, <<8, 11>>, <<9, 10>>, <<9, 11>>>>

(***************************************************************************)
(* Claims about the data handed to fit_channel (checked under SpecData)    *)
(***************************************************************************)
\* v is x divided by the mean of row
QuotientIs(v, x, row) ==
    /\ v.den # 0
    /\ v.num * Sum(row) = x * Len(row) * v.den

\* fit_channel has been entered in the current configuration
InFitChannel == pc \in {"fit", "save", "close", "done"}

\* C14: in shared mode with N channels of L samples the flux and the
\* uncertainty handed to fit_channel both have N*L entries, block c being
\* channel c's flux (uncertainty) divided by channel c's own mean flux, the
\* channels in increasing order; fit_channel is entered once, for channel 0.
C14_SharedFlatten ==
    /\ \A k \in 1..Len(lcs) :
          lcs[k].share =>
            /\ Len(lcs[k].flux) = nspecchan * MaxSamples
            /\ Len(lcs[k].unc) = nspecchan * MaxSamples
            /\ lcs[k].chan = 0
            /\ \A c \in 0..(nspecchan - 1), i \in 1..MaxSamples :
                  /\ QuotientIs(lcs[k].flux[c * MaxSamples + i],
                                lcdata[c + 1][i], lcdata[c + 1])
                  /\ QuotientIs(lcs[k].unc[c * MaxSamples + i],
                                lcerr[c + 1][i], lcdata[c + 1])
    /\ (HasSharedKind /\ InFitChannel) =>
          /\ Len(lcs) = 1
          /\ lcs[1].share
          /\ Cardinality({i \in 1..Len(logs) :
                             logs[i].msg = "Starting Shared Fit"}) = 1

C14_Witness ==
    /\ pc = "done"
    /\ HasSharedKind
    /\ nspecchan = 2
    /\ lcdata = <<<<2, 2>>, <<4, 2>>>>
    /\ lcerr = <<<<2, 3>>, <<3, 4>>>>
    /\ Len(lcs) = 1
    /\ lcs[1].flux[3] = [num |-> 8, den |-> 6]
    /\ lcs[1].unc[4] = [num |-> 8, den |-> 6]

\* C15: every LightCurve fit_channel builds is given a time, a flux and an
\* uncertainty of the same length.
C15_SameLengths ==
    \A k \in 1..Len(lcs) :
        /\ Len(lcs[k].flux) = Len(lcs[k].time)
        /\ Len(lcs[k].unc) = Len(lcs[k].time)

\* C15 as the code has it: flux and uncertainty always have the same length;
\* that length is the length of the time in per-channel mode and the number
\* of channels times the length of the time in shared mode.
C15_LengthsByMode ==
    \A k \in 1..Len(lcs) :
        /\ Len(lcs[k].time) = Len(bjdtdb)
        /\ Len(lcs[k].unc) = Len(lcs[k].flux)
        /\ Len(lcs[k].flux) =
              IF lcs[k].share THEN lcs[k].nchannel * Len(lcs[k].time)
              ELSE Len(lcs[k].time)

C15_Witness ==
    /\ pc = "done"
    /\ nspecchan = 2
    /\ Len(lcs) = 1
    /\ lcs[1].share
    /\ Len(lcs[1].time) = MaxSamples
    /\ Len(lcs[1].flux) = 2 * MaxSamples
    /\ Len(lcs[1].unc) = 2 * MaxSamples

\* the largest whole day not after x, in ticks
FloorDay(x) ==
    CHOOSE d \in 0..x : d % TimeResolution = 0 /\ d <= x /\ x < d + TimeResolution

ValueOf(dict, b) == Lookup(dict, DeclName(b)).value

\* the configuration's times and parameters after the offset is subtracted
OffsetApplied ==
    run_i >= 1 =>
        /\ Len(t_mjdtdb) = Len(bjdtdb)
        /\ \A i \in 1..Len(bjdtdb) :
              /\ t_mjdtdb[i] = bjdtdb[i] - FloorDay(bjdtdb[1])
              /\ ValueOf(params, "t0") - t_mjdtdb[i] =
                    ValueOf(fileParams, "t0") - bjdtdb[i]
        /\ ValueOf(params, "t0") = ValueOf(fileParams, "t0") - FloorDay(bjdtdb[1])
        /\ \A e \in Range(fileParams) :
              e.name # DeclName("t0") => Lookup(params, e.name) = e.vals
        /\ \A k \in 1..Len(lcs) : lcs[k].time = t_mjdtdb

\* C16: the offset is the floor of the first timestamp; it is subtracted once
\* from every time and from the value of t0, so t0 - time[i] is what it was;
\* the upstream meta.bjdtdb is never changed and no other parameter's value
\* changes.
C16_TimeOffset == [][bjdtdb' = bjdtdb /\ OffsetApplied']_vars

C16_Witness ==
    /\ pc = "done"
    /\ bjdtdb = <<11, 12>>
    /\ t_mjdtdb = <<3, 4>>
    /\ Len(fileParams) = 2
    /\ ValueOf(fileParams, "t0") = 10
    /\ ValueOf(params, "t0") = 2
    /\ ValueOf(params, "rp") = 10
    /\ Len(lcs) = 2

\* C18: in per-channel mode with N channels and testing off, fit_channel is
\* entered N times in a configuration, for the channels 0..N-1 in increasing
\* order, each time with that channel's own flux and uncertainty, both
\* divided by the mean of that channel's flux as it was before the division.
C18_PerChannel ==
    ~HasSharedKind =>
        /\ Len(lcs) <= nspecchan
        /\ (pc \in {"save", "close", "done"} \/ saved # <<>>) => Len(lcs) = nspecchan
        /\ \A k \in 1..Len(lcs) :
              /\ lcs[k].chan = k - 1
              /\ ~lcs[k].share
              /\ ~lcs[k].ramp
              /\ Len(lcs[k].flux) = MaxSamples
              /\ Len(lcs[k].unc) = MaxSamples
              /\ \A i \in 1..MaxSamples :
                    /\ QuotientIs(lcs[k].flux[i], lcdata[k][i], lcdata[k])
                    /\ QuotientIs(lcs[k].unc[i], lcerr[k][i], lcdata[k])

C18_Witness ==
    /\ pc = "done"
    /\ ~HasSharedKind
    /\ nspecchan = 2
    /\ lcdata = <<<<2, 4>>, <<4, 4>>>>
    /\ lcerr = <<<<2, 3>>, <<3, 4>>>>
    /\ Len(lcs) = 2
    /\ lcs[1].flux[2] = [num |-> 8, den |-> 6]
    /\ lcs[2].unc[1] = [num |-> 6, den |-> 8]

(***************************************************************************)
(* Claims about read_s4_meta (checked under SpecMeta)                      *)
(***************************************************************************)
\* the files the search of read_s4_meta can find: those of the input folder
\* or, when it holds none, those of its subfolders
Candidates == IF s4files.top # {} THEN s4files.top ELSE s4files.sub

\* C19: with no candidate metadata file the read fails and loads nothing;
\* with exactly one it loads that file; with more than one it does not fail
\* and loads the most recent one.
C19_MostRecent ==
    \A i \in 1..Len(s4loaded) :
        LET r == s4loaded[i]
        IN  /\ Candidates = {} => r.err = "AssertionError" /\ r.fname = NoFile
            /\ Cardinality(Candidates) = 1 => r.err = "none" /\ r.fname \in Candidates
            /\ Cardinality(Candidates) > 1 =>
                  /\ r.err = "none"
                  /\ r.fname \in Candidates
                  /\ \A f \in Candidates : f.mtime <= r.fname.mtime

(***************************************************************************)
(* Claims about check_nans (checked under SpecNans)                        *)
(***************************************************************************)
\* C20: check_nans does not fail on NaNs: for a data array and a mask of the
\* same shape it returns a mask that is 0 wherever the data is NaN and the
\* input mask everywhere else, leaves the data as it was, and writes a
\* warning to the log exactly when the data holds a NaN.
C20_NansMasked ==
    /\ error = NoError
    /\ pc = "checked" => Len(nanlog) = 1
    /\ \A k \in 1..Len(nanlog) :
          LET r == nanlog[k]
          IN  /\ Len(r.returned) = Len(r.mask)
              /\ \A i \in 1..Len(r.data) :
                    r.returned[i] = IF r.data[i].nan THEN 0 ELSE r.mask[i]
              /\ nandata = r.data
              /\ (r.log # <<>>) <=> (\E i \in 1..Len(r.data) : r.data[i].nan)
              /\ Len(r.log) <= 1

C20_Witness ==
    /\ pc = "checked"
    /\ Len(nandata) = 3
    /\ nandata[1].nan /\ ~nandata[2].nan /\ nandata[3].nan
    /\ nanlog[1].mask = <<1, 1, 0>>
    /\ nanlog[1].returned = <<0, 1, 0>>
    /\ nanlog[1].log = <<[msg |-> "WARNING", num_nans |-> 2]>>

(***************************************************************************)
(* Claims about the output directories of a run (checked under SpecRunDirs)*)
(***************************************************************************)
\* the calls of the makedirectory loop that raised
FailedMakes == {i \in 1..Len(runs) : runs[i].err # "none"}

\* the file system the run found
StartFs == IF runs = <<>> THEN fs ELSE runs[1].before

\* the folder call i of the makedirectory loop made
MadeBy(i) == [run |-> runs[i].run, ap |-> runs[i].ap, bg |-> runs[i].bg]

\* C21: when making the output directory of a configuration fails,
\* makedirectory raises the PermissionError with the topdir guidance, fitJWST
\* stops before any fit_channel call, and no output directory of the run has
\* been produced.
C21_NoPartialRun ==
    \A i \in 1..Len(runs) :
        runs[i].err = "PermissionError" =>
            /\ pc = "failed"
            /\ error.kind = "PermissionError"
            /\ lcs = <<>> /\ fits = <<>>
            /\ fs.runs = StartFs.runs
            /\ fs.dirs = StartFs.dirs

\* C21 as the code has it: the first call of the makedirectory loop that
\* raises ends fitJWST before anything is fitted, logged or saved.  When
\* os.makedirs(outputdir) is refused the call makes nothing and raises the
\* PermissionError with the guidance; when only the figs folder is refused
\* the output directory is already made and the error is raised as it is.
\* The directories made for the earlier configurations stay on disk.
C21_FailsBeforeFits ==
    \A i \in FailedMakes :
        /\ i = Len(runs)
        /\ pc = "failed"
        /\ error.kind = runs[i].err
        /\ run_i = 0 /\ lcs = <<>> /\ fits = <<>> /\ logs = <<>> /\ saved = <<>>
        /\ runs[i].err \in {"PermissionError", "OSError"}
        /\ runs[i].err = "PermissionError" => fs = runs[i].before
        /\ runs[i].err = "OSError" =>
              /\ Cardinality(fs.dirs \ runs[i].before.dirs) = 1
              /\ fs.figs = runs[i].before.figs
        /\ \A j \in 1..(i - 1) :
              /\ MadeBy(j) \in fs.dirs
              /\ MadeBy(j) \in fs.figs
              /\ MadeBy(j) \notin StartFs.dirs

C21_Witness ==
    /\ Len(runs) = 3
    /\ runs[3].err = "PermissionError"
    /\ pc = "failed"
    /\ StartFs.runs = {1}
    /\ MadeBy(1).run = 2
    /\ MadeBy(2).run = 3
    /\ Cardinality(fs.dirs \ StartFs.dirs) = 2
    /\ lcs = <<>>

\* C22: the output directory used while configuration k is processed, k-th
\* in the order apertures outside and backgrounds inside, is the directory
\* makedirectory made for that pair before the fits started, and no two
\* configurations of a run share an output directory.
C22_SameDirectory ==
    /\ \A k \in 1..Len(runs) :
          [ap |-> runs[k].ap, bg |-> runs[k].bg] = NestedOrder(k)
    /\ pc = "mkdirs" => run_i = 0 /\ lcs = <<>> /\ outputdir = NoDir
    /\ run_i >= 1 =>
          /\ Len(runs) = nconfig
          /\ FailedMakes = {}
          /\ outputdir = MadeBy(run_i)
          /\ [ap |-> outputdir.ap, bg |-> outputdir.bg] = NestedOrder(run_i)
          /\ outputdir.ap = spec_hw_val /\ outputdir.bg = bg_hw_val
          /\ outputdir \in fs.dirs
          /\ outputdir \notin runs[run_i].before.dirs
    /\ \A i, j \in 1..Len(runs) \ FailedMakes : MadeBy(i) = MadeBy(j) => i = j

C22_Witness ==
    /\ pc = "done"
    /\ nconfig = 4
    /\ StartFs.runs = {2}
    /\ [k \in 1..4 |-> runs[k].run] = <<1, 3, 4, 5>>
    /\ outputdir = [run |-> 5, ap |-> 9, bg |-> 11]
    /\ saved = <<0, 1, 2, 3>>

====
